---- MODULE Spec2Model ----
(***************************************************************************)
(* A model of the remote_rxd server core: the response envelope, the       *)
(* exception taxonomy and the exception-catching middleware, the           *)
(* authorization check, the filter manager and the generic list/object     *)
(* services over a store of soft-deletable entities.                       *)
(*                                                                         *)
(* Values that Python leaves dynamically typed (an envelope's errors,      *)
(* body and message, dictionary keys and values) are records tagged with   *)
(* a `kind` field.  A Python string is a sequence of TLA+ strings: either  *)
(* its characters, where the code inspects characters (filter keys,        *)
(* ordering values), or the pieces an f-string joins.                      *)
(***************************************************************************)
EXTENDS Integers, Sequences, FiniteSets, TLC

VARIABLES
    request,    \* boundary: the operation last run at the request boundary, with its inputs
    response,   \* boundary: what that operation produced (a response, an envelope, or a raised exception)
    store,      \* service: the rows of the entity's table, one per id in use
    call,       \* service: the service operation last run, with its inputs
    result,     \* service: what that operation returned or raised
    filters,    \* filter manager: the filter mapping under test
    fcall,      \* filter manager: the ManagerFilter method last applied
    fres,       \* filter manager: what it returned or raised
    db,         \* data-store sessions: the sessions acquired so far and the acquirer at work
    orm,        \* Model.objects: the one Manager instance and the tasks that query through it
    request_errors, \* validation: self.request_errors of the object whose methods are wrapped
    validations \* validation: the wrapped calls made so far, each with what it returned or raised

vars == <<request, response, store, call, result, filters, fcall, fres, db, orm,
          request_errors, validations>>
validationVars == <<request_errors, validations>>
boundaryVars == <<request, response>>
serviceVars == <<store, call, result>>
filterVars == <<filters, fcall, fres>>

----------------------------------------------------------------------------
(* Dynamically typed values *)

Null == [kind |-> "null"]
Str(t) == [kind |-> "str", s |-> t]
Lit(s) == Str(<<s>>)
Cat(a, b) == Str(a.s \o b.s)
Dict(items) == [kind |-> "dict", items |-> items]
Dict1(k, v) == Dict({[k |-> k, v |-> v]})
Object(cls) == [kind |-> "object", cls |-> cls]
Idle == [op |-> "none"]

\* str(d) of a dictionary d: the text is determined by d
ReprDict(d) == [kind |-> "str", s |-> <<"repr">>, of |-> d]

\* what json.dumps accepts: everything the model builds except live objects
RECURSIVE JsonSerializable(_)
JsonSerializable(v) ==
    CASE v.kind = "object" -> FALSE
      [] v.kind = "dict" -> \A it \in v.items : JsonSerializable(it.v)
      [] OTHER -> TRUE

----------------------------------------------------------------------------
(* fastapi.status *)

HTTP_200_OK == 200
HTTP_400_BAD_REQUEST == 400
HTTP_401_UNAUTHORIZED == 401
HTTP_404_NOT_FOUND == 404
HTTP_409_CONFLICT == 409
HTTP_500_INTERNAL_SERVER_ERROR == 500

----------------------------------------------------------------------------
(* core/settings/base.py: the process-wide settings object.  Settings()    *)
(* keeps the declared fields only: extra = "ignore" drops every other      *)
(* entry of the environment file.                                          *)

RootApiKeyEnv == Lit("key-1")
RootServiceNameEnv == Lit("svc-1")

Environment ==
    [ ENVIRONMENT |-> Lit("local"),
      ROOT_API_KEY |-> RootApiKeyEnv,
      ROOT_SERVICE_NAME |-> RootServiceNameEnv ]

SettingsFields ==
    { "ENVIRONMENT", "POSTGRESQL_URL", "PROJECT_NAME", "PROJECT_ID", "TEAM_NAME",
      "TIME_ZONE", "TIME_ZONE_UTC", "DATE_FORMAT", "DATE_TIME_FORMAT", "API_V1",
      "DEFAULT_PAGE_SIZE", "DEFAULT_ORDER_FIELD", "TIMESTAP" }

DEFAULT_PAGE_SIZE == 30

\* does `settings.<name>` evaluate, or raise AttributeError
HasSetting(name) == name \in SettingsFields

\* the value of `settings.<name>` for the names the authorization check reads
SettingValue(name) ==
    IF name \in DOMAIN Environment THEN Environment[name] ELSE Null

----------------------------------------------------------------------------
(* core/utils/exceptions.py and the library exceptions the middleware      *)
(* tells apart.  An exception is a record: its class and the attributes    *)
(* its constructor sets.                                                   *)

\* the classes a class inherits from, itself included
Mro(cls) ==
    CASE cls = "ObjectNotFound" ->
            {"ObjectNotFound", "NoResultFound", "SQLAlchemyError", "Exception"}
      [] cls \in {"NoResultFound", "IntegrityError", "OperationalError",
                  "InvalidRequestError"} -> {cls, "SQLAlchemyError", "Exception"}
      [] cls \in {"HTTPException", "BaseAppException", "SQLAlchemyError",
                  "TypeError", "AttributeError", "ValueError", "UnboundLocalError",
                  "IndexError", "ValidationError", "Exception"} -> {cls, "Exception"}
      [] OTHER -> {cls, "BaseAppException", "Exception"}

isinstance(e, cls) == cls \in Mro(e.cls)

\* the class attribute status_code of BaseAppException and its subclasses
AppStatusCode ==
    [ BaseAppException |-> HTTP_400_BAD_REQUEST,
      FormException |-> HTTP_400_BAD_REQUEST,
      FilterException |-> HTTP_400_BAD_REQUEST,
      NotFoundObjectException |-> HTTP_404_NOT_FOUND,
      NotFoundContractException |-> HTTP_404_NOT_FOUND,
      FeeNotFoundException |-> HTTP_404_NOT_FOUND,
      InvalidFeeTypeException |-> HTTP_400_BAD_REQUEST,
      InvalidContractException |-> HTTP_400_BAD_REQUEST,
      DisbursementMismatchException |-> HTTP_400_BAD_REQUEST,
      FeeAlreadyExistsException |-> HTTP_400_BAD_REQUEST,
      NotAuthorizationException |-> HTTP_401_UNAUTHORIZED,
      EncryptedException |-> HTTP_500_INTERNAL_SERVER_ERROR,
      ServiceNameException |-> HTTP_500_INTERNAL_SERVER_ERROR,
      EmailUniqueException |-> HTTP_409_CONFLICT,
      UserNameUniqueException |-> HTTP_409_CONFLICT,
      DontFindResourceException |-> HTTP_404_NOT_FOUND,
      DontValidCodeException |-> HTTP_404_NOT_FOUND,
      CodeAlreadyExpiredException |-> HTTP_404_NOT_FOUND,
      CodeAlreadyUseException |-> HTTP_404_NOT_FOUND,
      PasswordNoneException |-> HTTP_409_CONFLICT,
      PasswordNotValidException |-> HTTP_400_BAD_REQUEST,
      AccountUnverifiedException |-> HTTP_400_BAD_REQUEST,
      UserNameAndEmailIsEmptyException |-> HTTP_400_BAD_REQUEST,
      StepSAGAException |-> HTTP_409_CONFLICT ]

AppClasses == DOMAIN AppStatusCode

\* error_key: the class attribute, or the class name where it is None
ErrorKey ==
    [ c \in AppClasses |->
        CASE c = "BaseAppException" -> "BaseAppException"
          [] c = "FeeNotFoundException" -> "FeeNotFound"
          [] c = "InvalidFeeTypeException" -> "InvalidFeeType"
          [] c = "InvalidContractException" -> "InvalidContract"
          [] c = "DisbursementMismatchException" -> "DisbursementMismatch"
          [] c = "FeeAlreadyExistsException" -> "FeeAlreadyExists"
          [] OTHER -> c ]

\* the classes that keep BaseAppException.__init__, to_dict and __str__
PlainAppClasses ==
    { "BaseAppException", "FeeNotFoundException", "InvalidFeeTypeException",
      "InvalidContractException", "DisbursementMismatchException",
      "FeeAlreadyExistsException" }

\* the classes whose to_dict is {<key>: self.message} and whose __init__ stores
\* the message as given; the key of each
MessageDictKey ==
    [ EncryptedException |-> "encrypted",
      ServiceNameException |-> "service_name",
      CodeAlreadyExpiredException |-> "resource",
      PasswordNoneException |-> "password",
      PasswordNotValidException |-> "password",
      AccountUnverifiedException |-> "account",
      UserNameAndEmailIsEmptyException |-> "account",
      StepSAGAException |-> "step",
      EmailUniqueException |-> "email",
      UserNameUniqueException |-> "email",
      DontFindResourceException |-> "resource",
      DontValidCodeException |-> "resource",
      CodeAlreadyUseException |-> "resource" ]

BaseAppException(cls, message) == [cls |-> cls, message |-> message]
FormException(field_errors) == [cls |-> "FormException", field_errors |-> field_errors]
FilterException(invalid_keys, valid_keys) ==
    [cls |-> "FilterException", invalid_keys |-> invalid_keys, valid_keys |-> valid_keys]
NotFoundObjectException(model_name, id) ==
    [cls |-> "NotFoundObjectException", model_name |-> model_name, id |-> id]
NotFoundContractException(id) == [cls |-> "NotFoundContractException", id |-> id]
NotAuthorizationException(message, resource) ==
    [ cls |-> "NotAuthorizationException", resource |-> resource,
      message |-> Cat(Cat(message, Lit(" to resorce ")), resource) ]
MessageException(cls, message) == [cls |-> cls, message |-> message]
\* EmailUnique, UserNameUnique, DontFindResource: message = f"{message} {arg}"
SuffixedException(cls, message, arg) ==
    [cls |-> cls, message |-> Cat(Cat(message, Lit(" ")), arg)]

HTTPException(code, detail) ==
    [cls |-> "HTTPException", status_code |-> code, detail |-> detail]
NoResultFound(message) == [cls |-> "NoResultFound", message |-> message]
IntegrityError(orig) == [cls |-> "IntegrityError", orig |-> orig]
ForeignKeyViolation(table_name) ==
    [kind |-> "object", cls |-> "ForeignKeyViolation", table_name |-> table_name]
UniqueViolation == Object("UniqueViolation")
BuiltinError(cls, message) == [cls |-> cls, message |-> message]

\* the keys of a FilterException are ordering keys, character sequences
KeyStr(key) == Str(key)
ChooseOneOf(valid_keys) == [kind |-> "str", s |-> <<"Choose one of ">>, keys |-> valid_keys]

to_dict(e) ==
    CASE e.cls \in PlainAppClasses -> Dict1(Lit(ErrorKey[e.cls]), e.message)
      [] e.cls = "FormException" ->
            Dict({it \in e.field_errors : it.v # Str(<<>>)})
      [] e.cls = "FilterException" ->
            Dict({ [k |-> KeyStr(e.invalid_keys[i]), v |-> ChooseOneOf(e.valid_keys)] :
                   i \in DOMAIN e.invalid_keys })
      [] e.cls = "NotFoundObjectException" ->
            Dict1(Lit("id"), Cat(Cat(e.model_name, Lit(" Not Found with id ")), e.id))
      [] e.cls = "NotFoundContractException" ->
            Dict1(Lit("contract_id"), Cat(Lit("Contract Not Found with id "), e.id))
      [] e.cls = "NotAuthorizationException" ->
            Dict1(Lit("endpoint"), Cat(Lit("Dont autorization to resource "), e.resource))
      [] OTHER -> Dict1(Lit(MessageDictKey[e.cls]), e.message)

\* str(e)
str(e) ==
    CASE e.cls \in PlainAppClasses \cup
                  {"FormException", "FilterException", "NotFoundObjectException",
                   "NotFoundContractException"} -> ReprDict(to_dict(e))
      [] e.cls = "NotAuthorizationException" ->
            Cat(Lit("Dont autorization to resource "), e.resource)
      [] e.cls = "EncryptedException" -> Cat(Lit("Encrypted error "), e.message)
      [] e.cls = "ServiceNameException" -> Cat(Lit("ServiceName error "), e.message)
      [] e.cls \in AppClasses -> e.message
      [] e.cls = "HTTPException" -> Cat(Cat(Lit(ToString(e.status_code)), Lit(": ")), e.detail)
      [] e.cls = "IntegrityError" -> Lit("IntegrityError")
      [] OTHER -> e.message

\* e.status_code
StatusCodeOf(e) == IF e.cls = "HTTPException" THEN e.status_code ELSE AppStatusCode[e.cls]

----------------------------------------------------------------------------
(* core/utils/responses.py: the envelope *)

\* the types pydantic accepts for EnvelopeResponse.body
BodyAccepted(body) == body.kind \in {"null", "str", "dict", "EnvelopeResponseBody"}

EnvelopeResponseBody(links, count, results) ==
    [kind |-> "EnvelopeResponseBody", links |-> links, count |-> count, results |-> results]

\* EnvelopeResponse(...): the validated model, or pydantic's ValidationError
EnvelopeResponse(errors, body, message, code, successful) ==
    IF BodyAccepted(body)
    THEN [ kind |-> "EnvelopeResponse", errors |-> errors, message |-> message,
           status_code |-> code, successful |-> successful, body |-> body ]
    ELSE [kind |-> "raised", exc |-> BuiltinError("ValidationError", Lit("body"))]

create_envelope_response(data, links, count, message, code, successful) ==
    LET body == EnvelopeResponseBody(links, count, data)
    IN EnvelopeResponse(Null, body, message, code, successful)

create_simple_envelope_response(data, message, code, successful) ==
    EnvelopeResponse(Null, data, message, code, successful)

\* the defaults of both builders
DefaultMessage == Lit("INTERNAL_SERVER_ERROR")
DefaultStatusCode == HTTP_500_INTERNAL_SERVER_ERROR
DefaultSuccessful == FALSE

\* BaseService.create_response
create_response(data, links, count) ==
    create_envelope_response(data, links, count, DefaultMessage, DefaultStatusCode,
                             DefaultSuccessful)

\* api/health/endpoints.py
HealthMessage == Lit("The service is online and functioning properly.")
health_check ==
    EnvelopeResponse(
        Null,
        Dict({ [k |-> Lit("status"), v |-> Lit("ok")],
               [k |-> Lit("message"), v |-> HealthMessage],
               [k |-> Lit("timestamp"), v |-> Lit("TIMESTAP")] }),
        HealthMessage, HTTP_200_OK, TRUE)

\* JSONResponse(status_code, content): rendering runs json.dumps on the content
JSONResponse(code, content) ==
    IF \A f \in {"errors", "body", "message"} : JsonSerializable(content[f])
    THEN [kind |-> "JSONResponse", status_code |-> code, content |-> content]
    ELSE [kind |-> "raised", exc |-> BuiltinError("TypeError", Lit("not JSON serializable"))]

----------------------------------------------------------------------------
(* core/middlewares/catcher.py *)

Unbound == [error_detail |-> Null, status_code |-> 0, e |-> Null, bound |-> FALSE]

\* lines 20-22: the first, separate `if`
HttpBranch(e, cur) ==
    IF isinstance(e, "HTTPException")
    THEN [error_detail |-> Dict1(Lit("detail"), e.detail), status_code |-> e.status_code,
          e |-> cur.e, bound |-> TRUE]
    ELSE cur

\* lines 23-39: the if / elif / else chain that follows it
ChainBranch(e, cur) ==
    IF isinstance(e, "NoResultFound")
    THEN [error_detail |-> Dict1(Lit("detail"), Cat(Lit("No found: "), str(e))),
          status_code |-> HTTP_404_NOT_FOUND, e |-> cur.e, bound |-> TRUE]
    ELSE IF isinstance(e, "IntegrityError")
    THEN IF e.orig.cls = "ForeignKeyViolation"
         THEN [error_detail |->
                   Dict1(e.orig.table_name, Cat(Lit("ForeignKeyViolation: "), e.orig.table_name)),
               status_code |-> HTTP_409_CONFLICT,
               e |-> Cat(Lit("ForeignKeyViolation: "), e.orig.table_name), bound |-> TRUE]
         ELSE [error_detail |-> e.orig, status_code |-> HTTP_500_INTERNAL_SERVER_ERROR,
               e |-> cur.e, bound |-> TRUE]
    ELSE IF isinstance(e, "BaseAppException")
    THEN [error_detail |-> to_dict(e), status_code |-> StatusCodeOf(e), e |-> cur.e,
          bound |-> TRUE]
    ELSE [error_detail |-> Dict1(Lit("detail"), str(e)),
          status_code |-> HTTP_500_INTERNAL_SERVER_ERROR, e |-> cur.e, bound |-> TRUE]

\* the except block: what dispatch returns, or the exception that leaves it
CatchException(e) ==
    LET start == [Unbound EXCEPT !.e = str(e)]
        locals == ChainBranch(e, HttpBranch(e, start))
        envelope == EnvelopeResponse(locals.error_detail, Null, locals.e,
                                     locals.status_code, FALSE)
    IN JSONResponse(locals.status_code, envelope)

\* dispatch: call_next either returns the handler's response or raises
dispatch(outcome) ==
    IF outcome.kind = "raised" THEN CatchException(outcome.exc) ELSE outcome

----------------------------------------------------------------------------
(* core/utils/autorization.py *)

ServicesResource == Lit("/api/v1/services")

\* `or` evaluates its left operand first, and each operand reads the settings
_check_root_authorization(X_API_Key, X_Service_Name) ==
    IF ~HasSetting("ROOT_API_KEY")
    THEN [kind |-> "raised", exc |-> BuiltinError("AttributeError", Lit("ROOT_API_KEY"))]
    ELSE IF X_API_Key # SettingValue("ROOT_API_KEY")
    THEN [kind |-> "raised",
          exc |-> NotAuthorizationException(Lit("Not autorization"), ServicesResource)]
    ELSE IF ~HasSetting("ROOT_SERVICE_NAME")
    THEN [kind |-> "raised", exc |-> BuiltinError("AttributeError", Lit("ROOT_SERVICE_NAME"))]
    ELSE IF X_Service_Name # SettingValue("ROOT_SERVICE_NAME")
    THEN [kind |-> "raised",
          exc |-> NotAuthorizationException(Lit("Not autorization"), ServicesResource)]
    ELSE [kind |-> "returned", value |-> TRUE]

\* the dependency: the request is received and not used
check_authorization(path, X_Service_Name, X_API_Key) ==
    _check_root_authorization(X_API_Key, X_Service_Name)

----------------------------------------------------------------------------
(* core/utils/validations.py: the RequestValidationError handler *)

List(items) == [kind |-> "list", items |-> items]

\* error["loc"][1] if "loc" in error else None
FieldOf(error) == IF error.has_loc THEN error.loc[2] ELSE Null

RECURSIVE CollectMessages(_, _)
\* the messages appended under `field`, in the order of the errors
CollectMessages(errs, field) ==
    IF errs = <<>> THEN <<>>
    ELSE (IF FieldOf(Head(errs)) = field THEN <<Head(errs).msg>> ELSE <<>>)
         \o CollectMessages(Tail(errs), field)

validate(errs) ==
    IF \E i \in DOMAIN errs : errs[i].has_loc /\ Len(errs[i].loc) < 2
    THEN [kind |-> "raised", exc |-> BuiltinError("IndexError", Lit("loc"))]
    ELSE IF errs = <<>>
    THEN [kind |-> "raised", exc |-> BuiltinError("UnboundLocalError", Lit("error_msg"))]
    ELSE LET fields == {FieldOf(errs[i]) : i \in DOMAIN errs}
             error_detail ==
                 Dict({[k |-> f, v |-> List(CollectMessages(errs, f))] : f \in fields})
         IN JSONResponse(HTTP_400_BAD_REQUEST,
                EnvelopeResponse(error_detail, Null, errs[Len(errs)].msg,
                                 HTTP_400_BAD_REQUEST, FALSE))

----------------------------------------------------------------------------
(* The inputs of the boundary operations *)

MaxErrors == 2

Messages == {Lit("m1"), Lit("m2")}
Paths == {ServicesResource, Lit("/api/v1/users")}
HeaderKeys == {RootApiKeyEnv, Lit("key-x")}
HeaderNames == {RootServiceNameEnv, Lit("svc-x")}
Tables == {Lit("user")}

DataValues == {Null, Lit("text"), Dict1(Lit("id"), Lit("1")), List(<<>>), List(<<Lit("row")>>)}
LinksValues == {Null, Dict({[k |-> Lit("next"), v |-> Null], [k |-> Lit("previous"), v |-> Null]})}
CountValues == {Null, [kind |-> "int", n |-> 0], [kind |-> "int", n |-> 1]}
StatusCodes == {HTTP_200_OK, HTTP_404_NOT_FOUND, HTTP_500_INTERNAL_SERVER_ERROR}

FieldErrors ==
    { {}, {[k |-> Lit("email"), v |-> Lit("required")]},
      {[k |-> Lit("email"), v |-> Str(<<>>)], [k |-> Lit("name"), v |-> Lit("too long")]} }

AppExceptions ==
    {BaseAppException(c, m) : c \in PlainAppClasses, m \in Messages}
    \cup {FormException(fe) : fe \in FieldErrors}
    \cup {FilterException(<<<<"x">>>>, <<<<"i", "d">>>>),
          FilterException(<<<<"-", "x">>, <<"y">>>>, <<<<"i", "d">>>>)}
    \cup {NotFoundObjectException(Lit("user"), Lit("1")), NotFoundContractException(Lit("1"))}
    \cup {NotAuthorizationException(Lit("Not autorization"), p) : p \in Paths}
    \cup {MessageException(c, m) :
            c \in { "EncryptedException", "ServiceNameException", "CodeAlreadyExpiredException",
                    "PasswordNoneException", "PasswordNotValidException",
                    "AccountUnverifiedException", "UserNameAndEmailIsEmptyException",
                    "StepSAGAException" },
            m \in Messages}
    \cup {SuffixedException(c, m, Lit("arg")) :
            c \in { "EmailUniqueException", "UserNameUniqueException",
                    "DontFindResourceException", "DontValidCodeException",
                    "CodeAlreadyUseException" },
            m \in Messages}

LibraryExceptions ==
    {HTTPException(c, m) : c \in {HTTP_400_BAD_REQUEST, HTTP_404_NOT_FOUND}, m \in Messages}
    \cup {NoResultFound(m) : m \in Messages}
    \cup {IntegrityError(ForeignKeyViolation(t)) : t \in Tables}
    \cup {IntegrityError(UniqueViolation)}
    \cup {BuiltinError(c, m) : c \in {"ValueError", "AttributeError", "TypeError"}, m \in Messages}

RaisedExceptions == AppExceptions \cup LibraryExceptions

\* what the route handler hands back to the middleware when it does not raise
HandlerResponse == [kind |-> "JSONResponse", status_code |-> HTTP_200_OK, content |-> health_check]

ValidationErrorItems ==
    {[has_loc |-> TRUE, loc |-> l, msg |-> m] :
        l \in {<<Lit("body")>>, <<Lit("body"), Lit("email")>>, <<Lit("body"), Lit("name"), Lit("0")>>},
        m \in Messages}
    \cup {[has_loc |-> FALSE, loc |-> <<>>, msg |-> m] : m \in Messages}

RECURSIVE SeqsUpTo(_, _)
\* the sequences over S of length at most n
SeqsUpTo(S, n) ==
    IF n = 0 THEN {<<>>}
    ELSE LET shorter == SeqsUpTo(S, n - 1)
         IN shorter \cup {Append(q, x) : q \in shorter, x \in S}

----------------------------------------------------------------------------
(* The request boundary: one action per operation that produces a response *)

HealthCheck ==
    /\ request' = [op |-> "health_check"]
    /\ response' = health_check
    /\ UNCHANGED <<serviceVars, filterVars, db, orm, validationVars>>

CreateEnvelopeResponse ==
    \E data \in DataValues, links \in LinksValues, count \in CountValues,
       message \in Messages \cup {DefaultMessage},
       code \in StatusCodes, successful \in BOOLEAN :
        /\ request' = [op |-> "create_envelope_response", successful |-> successful]
        /\ response' = create_envelope_response(data, links, count, message, code, successful)
        /\ UNCHANGED <<serviceVars, filterVars, db, orm, validationVars>>

CreateSimpleEnvelopeResponse ==
    \E data \in DataValues, message \in Messages \cup {DefaultMessage},
       code \in StatusCodes, successful \in BOOLEAN :
        /\ request' = [op |-> "create_simple_envelope_response", successful |-> successful]
        /\ response' = create_simple_envelope_response(data, message, code, successful)
        /\ UNCHANGED <<serviceVars, filterVars, db, orm, validationVars>>

CreateResponse ==
    \E data \in DataValues, links \in LinksValues, count \in CountValues :
        /\ request' = [op |-> "create_response"]
        /\ response' = create_response(data, links, count)
        /\ UNCHANGED <<serviceVars, filterVars, db, orm, validationVars>>

Dispatch ==
    \E outcome \in {HandlerResponse} \cup {[kind |-> "raised", exc |-> e] : e \in RaisedExceptions} :
        /\ request' = [op |-> "dispatch", outcome |-> outcome]
        /\ response' = dispatch(outcome)
        /\ UNCHANGED <<serviceVars, filterVars, db, orm, validationVars>>

\* ObjectNotFound(message): __init__ ends in self.__class__.__str__(), a call of
\* the method on the class without an instance, so no ObjectNotFound is ever built
ObjectNotFound(message) ==
    [kind |-> "raised", exc |-> BuiltinError("TypeError", Lit("__str__"))]

\* FilterException.__init__ as it runs: the log line evaluates to_dict(), which
\* iterates invalid_keys; both arguments default to None
FilterException__init__(invalid_keys, valid_keys) ==
    IF invalid_keys.kind = "null"
    THEN [kind |-> "raised", exc |-> BuiltinError("TypeError", Lit("not iterable"))]
    ELSE [ kind |-> "returned",
           value |-> FilterException(invalid_keys.items,
                        IF valid_keys.kind = "null" THEN <<>> ELSE valid_keys.items) ]

\* the `raise Cls(args)` statements a handler runs: the class, the arguments and
\* what evaluating the constructor call gives
Constructions ==
    {[cls |-> "NoResultFound", args |-> <<m>>,
      built |-> [kind |-> "returned", value |-> NoResultFound(m)]] : m \in Messages}
    \cup {[cls |-> "ObjectNotFound", args |-> <<m>>, built |-> ObjectNotFound(m)] :
            m \in Messages}
    \cup {[cls |-> "FilterException", args |-> <<i, v>>, built |-> FilterException__init__(i, v)] :
            i \in {Null, List(<<<<"x">>>>)}, v \in {Null, List(<<<<"i", "d">>>>)}}

\* a handler runs `raise Cls(args)`: the exception that leaves it is the one the
\* constructor raised, or the one it built
Raise ==
    \E c \in Constructions :
        LET exc == IF c.built.kind = "raised" THEN c.built.exc ELSE c.built.value
        IN /\ request' = [op |-> "raise", cls |-> c.cls, args |-> c.args, built |-> c.built]
           /\ response' = dispatch([kind |-> "raised", exc |-> exc])
           /\ UNCHANGED <<serviceVars, filterVars, db, orm, validationVars>>

\* sqlalchemy.exc.SQLAlchemyError(message)
SQLAlchemyError(message) == [cls |-> "SQLAlchemyError", message |-> message]

\* get_session when the work done with the session raises `exc`: the except
\* clause rolls back, reports and logs, and does not raise again
get_session_except(exc) == [kind |-> "returned", value |-> Null]

\* RepositoryBase.add when a statement of its try block raises `exc`
add(exc) ==
    IF isinstance(exc, "SQLAlchemyError")
    THEN [kind |-> "raised",
          exc |-> SQLAlchemyError(Cat(Lit("Failed to add a new record: "), str(exc)))]
    ELSE [kind |-> "raised", exc |-> exc]

\* RepositoryBase.delete_by_id when a statement of its try block raises `exc`
delete_by_id(exc) == [kind |-> "raised", exc |-> exc]

\* RepositoryBase.update_field_by_id when a statement of its try block raises `exc`
update_field_by_id(exc) == [kind |-> "raised", exc |-> exc]

\* the layers below the middleware that catch what passes through them
Layers == {"get_session", "add", "delete_by_id", "update_field_by_id"}

\* the errors detected below the middleware: typed application errors and
\* failures of the data store
Failures ==
    RaisedExceptions
    \cup {BuiltinError("OperationalError", m) : m \in Messages}

\* an error is raised inside a layer below the middleware; what leaves the layer
RaiseBelow ==
    \E layer \in Layers, exc \in Failures :
        /\ request' = [op |-> "below", layer |-> layer, exc |-> exc]
        /\ response' = CASE layer = "get_session" -> get_session_except(exc)
                         [] layer = "add" -> add(exc)
                         [] layer = "delete_by_id" -> delete_by_id(exc)
                         [] layer = "update_field_by_id" -> update_field_by_id(exc)
        /\ UNCHANGED <<serviceVars, filterVars, db, orm, validationVars>>

\* the log records the constructor of a class emits, by level: the one logging
\* call of its __init__ (NotFoundObjectException.__init__ has none, and the
\* argument of ObjectNotFound's raises before a record is made)
ConstructorLog(cls) ==
    CASE cls \in PlainAppClasses \cup
                {"FormException", "FilterException", "NotFoundContractException"} ->
            <<"warning">>
      [] cls \in {"NotFoundObjectException", "ObjectNotFound"} -> <<>>
      [] OTHER -> <<"error">>

\* the except block of dispatch makes no logging call
DispatchLog == <<>>

\* an error of the taxonomy is constructed and later caught by the middleware
Construct ==
    \E cls \in AppClasses \cup {"ObjectNotFound"} :
        /\ request' = [op |-> "construct", cls |-> cls]
        /\ response' = [kind |-> "log", at_construction |-> ConstructorLog(cls),
                        at_catch |-> DispatchLog]
        /\ UNCHANGED <<serviceVars, filterVars, db, orm, validationVars>>

Validate ==
    \E errs \in SeqsUpTo(ValidationErrorItems, MaxErrors) :
        /\ request' = [op |-> "validate", errs |-> errs]
        /\ response' = validate(errs)
        /\ UNCHANGED <<serviceVars, filterVars, db, orm, validationVars>>

\* a request to a route that depends on check_authorization
ProtectedRequest ==
    \E path \in Paths, key \in HeaderKeys, name \in HeaderNames :
        LET checked == check_authorization(path, name, key)
            outcome == IF checked.kind = "raised" THEN checked ELSE HandlerResponse
        IN /\ request' = [op |-> "protected", path |-> path, key |-> key, name |-> name,
                          checked |-> checked]
           /\ response' = dispatch(outcome)
           /\ UNCHANGED <<serviceVars, filterVars, db, orm, validationVars>>

BoundaryInit ==
    /\ request = Idle
    /\ response = Idle

ServiceIdle ==
    /\ store = {}
    /\ call = Idle
    /\ result = Idle

FilterIdle ==
    /\ filters = <<>>
    /\ fcall = Idle
    /\ fres = Idle

\* no session acquired, no acquirer at work
SessionIdle == db = [sessions |-> <<>>, cur |-> [op |-> "none", pc |-> "done", raised |-> FALSE]]

\* the Manager as the class statement leaves it, and no task started
ManagerIdle ==
    orm = [ manager |-> [cls |-> "None", query |-> [cls |-> "None", conds |-> {}]],
            tasks |-> [t \in 1..2 |-> [pc |-> "start", cls |-> "None", cond |-> "None",
                                         executed |-> [cls |-> "None", conds |-> {}]]] ]

\* request_errors holds an empty validations_errors mapping, and no wrapped call was made
ValidationIdle ==
    /\ request_errors = [validations_errors |-> <<>>]
    /\ validations = <<>>

Init == BoundaryInit /\ ServiceIdle /\ FilterIdle /\ SessionIdle /\ ManagerIdle /\ ValidationIdle

Next ==
    \/ HealthCheck
    \/ CreateEnvelopeResponse
    \/ CreateSimpleEnvelopeResponse
    \/ CreateResponse
    \/ Dispatch
    \/ Raise
    \/ RaiseBelow
    \/ Construct
    \/ Validate
    \/ ProtectedRequest

Spec == Init /\ [][Next]_vars

----------------------------------------------------------------------------
(* Python strings whose characters the code inspects: sequences of         *)
(* one-character strings.                                                  *)

s_id == <<"i", "d">>
s_created == <<"c", "r", "e", "a", "t", "e", "d">>
s_updated == <<"u", "p", "d", "a", "t", "e", "d">>
s_is_removed == <<"i", "s", "_", "r", "e", "m", "o", "v", "e", "d">>
s_email == <<"e", "m", "a", "i", "l">>
s_public_key == <<"p", "u", "b", "l", "i", "c", "_", "k", "e", "y">>
s_ordering == <<"o", "r", "d", "e", "r", "i", "n", "g">>
s_as_dict == <<"a", "s", "_", "d", "i", "c", "t">>
s_dict == <<"d", "i", "c", "t">>
s_delete == <<"d", "e", "l", "e", "t", "e">>
s_save == <<"s", "a", "v", "e">>
s_gt == <<"g", "t">>
s_lt == <<"l", "t">>
s_gte == <<"g", "t", "e">>
s_lte == <<"l", "t", "e">>
s_contains == <<"c", "o", "n", "t", "a", "i", "n", "s">>
s_icontains == <<"i", "c", "o", "n", "t", "a", "i", "n", "s">>

Chars(v) == v.s
IntVal(n) == [kind |-> "int", n |-> n]

StartsWith(t, prefix) == Len(t) >= Len(prefix) /\ SubSeq(t, 1, Len(prefix)) = prefix

\* the first index at which `sub` occurs in t, or 0
Find(t, sub) ==
    LET hits == {i \in 1..(Len(t) - Len(sub) + 1) : SubSeq(t, i, i + Len(sub) - 1) = sub}
    IN IF hits = {} THEN 0 ELSE CHOOSE i \in hits : \A j \in hits : i <= j

\* `sub in t`
Contains(t, sub) == Find(t, sub) # 0

RECURSIVE Split(_, _)
\* t.split(sep), sep not empty
Split(t, sep) ==
    LET i == Find(t, sep)
    IN IF i = 0 THEN <<t>>
       ELSE <<SubSeq(t, 1, i - 1)>> \o Split(SubSeq(t, i + Len(sep), Len(t)), sep)

\* t.replace(old, "", 1)
ReplaceFirst(t, old) ==
    LET i == Find(t, old)
    IN IF i = 0 THEN t ELSE SubSeq(t, 1, i - 1) \o SubSeq(t, i + Len(old), Len(t))

----------------------------------------------------------------------------
(* models/base_model.py, models/user.py: the entity *)

\* model.__table__.columns.keys()
Columns == <<s_id, s_created, s_updated, s_is_removed, s_email, s_public_key>>
ColumnSet == {Columns[i] : i \in DOMAIN Columns}

\* class attributes that are not columns: getattr finds them too
Methods == {s_as_dict, s_dict, s_delete, s_save}

HasAttr(name) == name \in ColumnSet \cup Methods

----------------------------------------------------------------------------
(* core/utils/filters.py: ManagerFilter.  A filter mapping is a sequence   *)
(* of entries [key, value] with distinct keys, in the dict's order.        *)

separator == <<"_", "_">>
Minus == <<"-">>
Comma == <<",">>
DEFAULT_ORDER_FIELD == s_created

Returned(v) == [kind |-> "returned", value |-> v]
Raised(e) == [kind |-> "raised", exc |-> e]

\* separe_filters without its test for the separator: every key but `ordering`
\* is an exact-match filter
separe_filters_no_separator(fs) ==
    Returned([ single_filters |-> SelectSeq(fs, LAMBDA e : e.key # s_ordering),
               range_filters |-> <<>>,
               ordering |-> <<DEFAULT_ORDER_FIELD>>,
               explicit |-> FALSE ])

RECURSIVE separe_filters(_)
separe_filters(fs) ==
    IF fs = <<>>
    THEN Returned([single_filters |-> <<>>, range_filters |-> <<>>,
                   ordering |-> <<DEFAULT_ORDER_FIELD>>, explicit |-> FALSE])
    ELSE LET n == Len(fs)
             last == fs[n]
             before == separe_filters(SubSeq(fs, 1, n - 1))
         IN IF before.kind = "raised" THEN before
            ELSE IF Contains(last.key, separator)
            THEN Returned([before.value EXCEPT !.range_filters = Append(@, last)])
            ELSE IF last.key = s_ordering
            THEN IF last.value.kind # "str"
                 THEN Raised(BuiltinError("AttributeError", Lit("split")))
                 ELSE Returned([before.value EXCEPT
                        !.ordering = IF Contains(Chars(last.value), Comma)
                                     THEN Split(Chars(last.value), Comma)
                                     ELSE <<Chars(last.value)>>,
                        !.explicit = TRUE])
            ELSE Returned([before.value EXCEPT !.single_filters = Append(@, last)])

\* clean_key = key.replace("-", "", 1)
CleanKey(key) == ReplaceFirst(key, Minus)

RECURSIVE CleanLoop(_)
\* the loop of clean_order_by_keys: the two lists it fills
CleanLoop(ordering_keys) ==
    IF ordering_keys = <<>> THEN [cleaned_data |-> <<>>, invalid_keys |-> <<>>]
    ELSE LET key == Head(ordering_keys)
             clean_key == CleanKey(key)
             rest == CleanLoop(Tail(ordering_keys))
         IN IF clean_key = <<>> THEN rest
            ELSE IF clean_key \in ColumnSet
            THEN [rest EXCEPT !.cleaned_data = <<key>> \o @]
            ELSE [rest EXCEPT !.invalid_keys = <<key>> \o @]

clean_order_by_keys(ordering_keys) ==
    LET lists == CleanLoop(ordering_keys)
    IN IF lists.invalid_keys # <<>>
       THEN Raised(FilterException(lists.invalid_keys, Columns))
       ELSE Returned(lists.cleaned_data)

Operators ==
    [ gt |-> ">", lt |-> "<", gte |-> ">=", lte |-> "<=", contains |-> "like",
      icontains |-> "ilike" ]
OperatorName(op) ==
    CASE op = s_gt -> "gt" [] op = s_lt -> "lt" [] op = s_gte -> "gte" [] op = s_lte -> "lte"
      [] op = s_contains -> "contains" [] op = s_icontains -> "icontains" [] OTHER -> "none"

\* one pass of the loop body of get_unary_expressions over an entry
UnaryStep(entry) ==
    LET tokens == Split(entry.key, separator)
    IN IF Len(tokens) # 2
       THEN Raised(BuiltinError("ValueError", Lit("unpack")))
       ELSE LET field_name == tokens[1]
                operator == OperatorName(tokens[2])
            IN IF ~HasAttr(field_name)
               THEN Raised(BuiltinError("AttributeError", Str(field_name)))
               ELSE IF operator = "none" THEN Returned(<<>>)
               ELSE IF field_name \notin ColumnSet
               THEN Raised(BuiltinError("TypeError", Str(field_name)))
               ELSE Returned(<<[column |-> field_name, op |-> Operators[operator],
                                value |-> entry.value]>>)

RECURSIVE UnaryLoop(_)
UnaryLoop(range_filters) ==
    IF range_filters = <<>> THEN Returned(<<>>)
    ELSE LET first == UnaryStep(Head(range_filters))
         IN IF first.kind = "raised" THEN first
            ELSE LET rest == UnaryLoop(Tail(range_filters))
                 IN IF rest.kind = "raised" THEN rest
                    ELSE Returned(first.value \o rest.value)

get_unary_expressions(mf) == UnaryLoop(mf.range_filters)

OrderItem(key) ==
    [column |-> CleanKey(key), dir |-> IF StartsWith(key, Minus) THEN "desc" ELSE "asc"]

get_ordering_expressions(mf) ==
    LET ordering_cleaned == clean_order_by_keys(mf.ordering)
    IN IF ordering_cleaned.kind = "raised" THEN ordering_cleaned
       ELSE Returned([i \in DOMAIN ordering_cleaned.value |->
                         OrderItem(ordering_cleaned.value[i])])

manage_filters(mf) ==
    LET unary_expressions == get_unary_expressions(mf)
        order_by == get_ordering_expressions(mf)
    IN IF unary_expressions.kind = "raised" THEN unary_expressions
       ELSE IF order_by.kind = "raised" THEN order_by
       ELSE Returned([unary_expressions |-> unary_expressions.value,
                      single_filters |-> mf.single_filters,
                      order_by |-> order_by.value])

\* ManagerFilter(model, filters): __init__ runs separe_filters
ManagerFilter(fs) == separe_filters(fs)

----------------------------------------------------------------------------
(* The filter mappings the filter manager is applied to *)

MaxFilterKeys == 2

k_created__gt == <<"c", "r", "e", "a", "t", "e", "d", "_", "_", "g", "t">>
k_created__gte == <<"c", "r", "e", "a", "t", "e", "d", "_", "_", "g", "t", "e">>
k_created__lt == <<"c", "r", "e", "a", "t", "e", "d", "_", "_", "l", "t">>
k_created__lte == <<"c", "r", "e", "a", "t", "e", "d", "_", "_", "l", "t", "e">>
k_email__contains == <<"e", "m", "a", "i", "l", "_", "_", "c", "o", "n", "t", "a", "i", "n", "s">>
k_email__icontains == <<"e", "m", "a", "i", "l", "_", "_", "i", "c", "o", "n", "t", "a", "i", "n", "s">>
k_created__xx == <<"c", "r", "e", "a", "t", "e", "d", "_", "_", "x", "x">>
k_created__ == <<"c", "r", "e", "a", "t", "e", "d", "_", "_">>
k_bogus__gt == <<"b", "o", "g", "u", "s", "_", "_", "g", "t">>
k_bogus__xx == <<"b", "o", "g", "u", "s", "_", "_", "x", "x">>
k_created__gt__x == <<"c", "r", "e", "a", "t", "e", "d", "_", "_", "g", "t", "_", "_", "x">>
k_save__xx == <<"s", "a", "v", "e", "_", "_", "x", "x">>
k_save__gt == <<"s", "a", "v", "e", "_", "_", "g", "t">>

\* values of the `ordering` key
o_created == <<"c", "r", "e", "a", "t", "e", "d">>
o_desc_created == <<"-", "c", "r", "e", "a", "t", "e", "d">>
o_id_desc_created == <<"i", "d", ",", "-", "c", "r", "e", "a", "t", "e", "d">>
o_inner_minus == <<"c", "r", "e", "-", "a", "t", "e", "d">>
o_bogus == <<"b", "o", "g", "u", "s">>
o_desc_bogus_created == <<"-", "b", "o", "g", "u", "s", ",", "c", "r", "e", "a", "t", "e", "d">>
o_empty == <<>>
o_trailing_comma == <<"c", "r", "e", "a", "t", "e", "d", ",">>
o_minus == <<"-">>
o_bogus_nope == <<"b", "o", "g", "u", "s", ",", "n", "o", "p", "e">>
o_two_minus == <<"-", "-", "i", "d">>

RangeKeys ==
    { k_created__gt, k_created__gte, k_created__lt, k_created__lte,
      k_email__contains, k_email__icontains, k_created__xx, k_created__,
      k_bogus__gt, k_bogus__xx, k_created__gt__x, k_save__xx,
      k_save__gt }
SingleKeys == {s_created, s_email}
OrderingValues ==
    { o_created, o_desc_created, o_id_desc_created, o_inner_minus,
      o_bogus, o_desc_bogus_created, o_empty, o_trailing_comma,
      o_minus, o_bogus_nope, o_two_minus }
FilterValues == {IntVal(1), IntVal(2)}

FilterEntries ==
    {[key |-> k, value |-> v] : k \in RangeKeys \cup SingleKeys, v \in FilterValues}
    \cup {[key |-> s_ordering, value |-> Str(o)] : o \in OrderingValues}

DistinctKeys(fs) == \A i, j \in DOMAIN fs : i # j => fs[i].key # fs[j].key

FilterMappings == {fs \in SeqsUpTo(FilterEntries, MaxFilterKeys) : DistinctKeys(fs)}

----------------------------------------------------------------------------
(* The filter manager: the mapping is drawn at the start, and each action  *)
(* applies one method of ManagerFilter(model, filters) to it.              *)

\* a method of the constructed manager, or the exception its constructor raised
OnManager(Method(_)) ==
    LET mf == ManagerFilter(filters)
    IN IF mf.kind = "raised" THEN mf ELSE Method(mf.value)

SepareFilters ==
    /\ fcall' = [op |-> "separe_filters"]
    /\ fres' = separe_filters(filters)
    /\ UNCHANGED <<filters, boundaryVars, serviceVars, db, orm, validationVars>>

CleanOrderByKeys ==
    LET Method(mf) == clean_order_by_keys(mf.ordering)
    IN /\ fcall' = [op |-> "clean_order_by_keys"]
       /\ fres' = OnManager(Method)
       /\ UNCHANGED <<filters, boundaryVars, serviceVars, db, orm, validationVars>>

GetUnaryExpressions ==
    /\ fcall' = [op |-> "get_unary_expressions"]
    /\ fres' = OnManager(get_unary_expressions)
    /\ UNCHANGED <<filters, boundaryVars, serviceVars, db, orm, validationVars>>

GetOrderingExpressions ==
    /\ fcall' = [op |-> "get_ordering_expressions"]
    /\ fres' = OnManager(get_ordering_expressions)
    /\ UNCHANGED <<filters, boundaryVars, serviceVars, db, orm, validationVars>>

ManageFilters ==
    /\ fcall' = [op |-> "manage_filters"]
    /\ fres' = OnManager(manage_filters)
    /\ UNCHANGED <<filters, boundaryVars, serviceVars, db, orm, validationVars>>

FilterInit ==
    /\ filters \in FilterMappings
    /\ fcall = Idle
    /\ fres = Idle

InitFilter == FilterInit /\ BoundaryInit /\ ServiceIdle /\ SessionIdle /\ ManagerIdle /\ ValidationIdle

NextFilter ==
    \/ SepareFilters
    \/ CleanOrderByKeys
    \/ GetUnaryExpressions
    \/ GetOrderingExpressions
    \/ ManageFilters

SpecFilter == InitFilter /\ [][NextFilter]_vars

----------------------------------------------------------------------------
(* The data store and the query layer.  A row holds the columns of the     *)
(* entity; the store is the set of rows of its table, one per id.          *)

MaxId == 2
MaxPage == 2
MaxSize == 2

Ids == 1..MaxId
CreatedValues == {1, 2}

Row(id, created, is_removed) ==
    [ id |-> id, created |-> created, updated |-> created, is_removed |-> is_removed,
      email |-> 0, public_key |-> 0 ]

ColumnValue(row, name) ==
    CASE name = s_id -> row.id
      [] name = s_created -> row.created
      [] name = s_updated -> row.updated
      [] name = s_is_removed -> (IF row.is_removed THEN 1 ELSE 0)
      [] name = s_email -> row.email
      [] name = s_public_key -> row.public_key

\* a comparison predicate on a row; LIKE and ILIKE with a pattern that holds no
\* wildcard (the code passes the value through as the pattern) match on equality
Holds(expr, row) ==
    LET x == ColumnValue(row, expr.column)
        y == expr.value.n
    IN CASE expr.op = ">" -> x > y
         [] expr.op = "<" -> x < y
         [] expr.op = ">=" -> x >= y
         [] expr.op = "<=" -> x <= y
         [] expr.op \in {"like", "ilike"} -> x = y

\* BaseService.get_queryset: select(model).where(...).filter_by(...).order_by(...)
get_queryset(unary_expressions, single_filters, order_by) ==
    [ unary_expressions |-> unary_expressions, single_filters |-> single_filters,
      order_by |-> order_by ]

\* BaseService.get_ordered_queryset / get_query
get_query(fs) ==
    LET mf == ManagerFilter(fs)
    IN IF mf.kind = "raised" THEN mf
       ELSE LET managed == manage_filters(mf.value)
            IN IF managed.kind = "raised" THEN managed
               ELSE IF \E i \in DOMAIN managed.value.single_filters :
                          managed.value.single_filters[i].key \notin ColumnSet
               THEN Raised(BuiltinError("InvalidRequestError", Lit("filter_by")))
               ELSE Returned(get_queryset(managed.value.unary_expressions,
                                          managed.value.single_filters,
                                          managed.value.order_by))

\* the rows a query selects
Matching(query, rows) ==
    { r \in rows :
        /\ \A i \in DOMAIN query.unary_expressions : Holds(query.unary_expressions[i], r)
        /\ \A i \in DOMAIN query.single_filters :
              ColumnValue(r, query.single_filters[i].key) = query.single_filters[i].value.n }

RECURSIVE Before(_, _, _)
\* r1 sorts strictly before r2 under the ORDER BY list
Before(r1, r2, order_by) ==
    IF order_by = <<>> THEN FALSE
    ELSE LET o == Head(order_by)
             a == ColumnValue(r1, o.column)
             b == ColumnValue(r2, o.column)
         IN IF a = b THEN Before(r1, r2, Tail(order_by))
            ELSE IF o.dir = "asc" THEN a < b ELSE a > b

\* the sequences in which the database may return the selected rows: rows that
\* compare equal under the ORDER BY list come in any order
Executions(query, rows) ==
    LET sel == Matching(query, rows)
        n == Cardinality(sel)
    IN { q \in [1..n -> sel] :
           /\ \A i, j \in 1..n : i # j => q[i] # q[j]
           /\ \A i, j \in 1..n : i < j => ~Before(q[j], q[i], query.order_by) }

\* BaseService.transform_to_schema: BaseSchema keeps id, updated, created
transform_to_schema(row) ==
    [kind |-> "schema", id |-> row.id, updated |-> row.updated, created |-> row.created]

TransformAll(rows) == [i \in DOMAIN rows |-> transform_to_schema(rows[i])]

----------------------------------------------------------------------------
(* The request URL of a list request: a path and the query string, a       *)
(* sequence of name=value pairs with the values as text.                   *)

\* the number a query value spells, for the values the page parameters take
IntOf(text) == CHOOSE n \in 0..(DEFAULT_PAGE_SIZE + MaxPage + MaxSize) : ToString(n) = text

RECURSIVE LastValue(_, _, _)
\* request.query_params.get(name, default): the last value given
LastValue(query, name, default) ==
    IF query = <<>> THEN default
    ELSE LET n == Len(query)
         IN IF query[n].k = name THEN query[n].v
            ELSE LastValue(SubSeq(query, 1, n - 1), name, default)

\* default_pagination_params: page and page_size of the query string
default_pagination_params(url) ==
    [ page |-> IntOf(LastValue(url.query, "page", "1")),
      size |-> IntOf(LastValue(url.query, "page_size", ToString(DEFAULT_PAGE_SIZE))) ]

RECURSIVE parse_qs(_)
\* urllib.parse.parse_qs: name -> list of values, names in order of first
\* appearance, blank values left out
parse_qs(query) ==
    IF query = <<>> THEN <<>>
    ELSE LET n == Len(query)
             last == query[n]
             before == parse_qs(SubSeq(query, 1, n - 1))
         IN IF last.v = "" THEN before
            ELSE IF \E i \in DOMAIN before : before[i].k = last.k
            THEN [i \in DOMAIN before |->
                    IF before[i].k = last.k
                    THEN [before[i] EXCEPT !.vs = Append(@, last.v)]
                    ELSE before[i]]
            ELSE Append(before, [k |-> last.k, vs |-> <<last.v>>])

\* params[name] = values
SetParam(params, name, values) ==
    IF \E i \in DOMAIN params : params[i].k = name
    THEN [i \in DOMAIN params |->
            IF params[i].k = name THEN [k |-> name, vs |-> values] ELSE params[i]]
    ELSE Append(params, [k |-> name, vs |-> values])

RECURSIVE urlencode(_)
\* urlencode(params, doseq=True)
urlencode(params) ==
    IF params = <<>> THEN <<>>
    ELSE [i \in DOMAIN Head(params).vs |-> [k |-> Head(params).k, v |-> Head(params).vs[i]]]
         \o urlencode(Tail(params))

Url(path, query) == [kind |-> "url", path |-> path, query |-> query]

\* -(-total // page_size)
TotalPages(total, page_size) == (total + page_size - 1) \div page_size

\* _generate_pagination_links with no previous link past the last page
_generate_pagination_links_in_range(current_page, page_size, total, url) ==
    LET params == parse_qs(url.query)
        total_pages == TotalPages(total, page_size)
    IN [ next |-> IF current_page < total_pages
                  THEN Url(url.path,
                           urlencode(SetParam(params, "page", <<ToString(current_page + 1)>>)))
                  ELSE Null,
         previous |-> IF current_page > 1 /\ current_page <= total_pages
                      THEN Url(url.path,
                               urlencode(SetParam(params, "page", <<ToString(current_page - 1)>>)))
                      ELSE Null ]

\* ListBaseService._generate_pagination_links
_generate_pagination_links(current_page, page_size, total, url) ==
    LET params == parse_qs(url.query)
        total_pages == TotalPages(total, page_size)
        next_params == SetParam(params, "page", <<ToString(current_page + 1)>>)
        next_page == IF current_page < total_pages
                     THEN Url(url.path, urlencode(next_params))
                     ELSE Null
        \* the same dict is updated again: it holds the next page when that was set
        base == IF current_page < total_pages THEN next_params ELSE params
        previous_page == IF current_page > 1
                         THEN Url(url.path,
                                  urlencode(SetParam(base, "page", <<ToString(current_page - 1)>>)))
                         ELSE Null
    IN [next |-> next_page, previous |-> previous_page]

----------------------------------------------------------------------------
(* core/utils/generic_views.py, core/utils/orm.py,                         *)
(* core/utils/repository_base.py: the services over the store              *)

Min(a, b) == IF a <= b THEN a ELSE b

TableName == Lit("user")

\* get_object without its `if not instance` check
get_object_unchecked(id, rows) ==
    LET found == {r \in rows : r.id = id}
    IN IF found = {} THEN [kind |-> "returned", value |-> Null]
       ELSE [kind |-> "returned", value |-> CHOOSE r \in found : TRUE]

\* ObjectBaseService.get_object: session.get looks the primary key up
get_object(id, rows) ==
    LET found == {r \in rows : r.id = id}
    IN IF found = {}
       THEN Raised(NoResultFound(
                Cat(Cat(Cat(Lit("There is no "), TableName), Lit(" with this ID: ")),
                    Lit(ToString(id)))))
       ELSE Returned(CHOOSE r \in found : TRUE)

\* RepositoryBase.get_by_id: query(model).filter(model.id == id).first()
get_by_id(id, rows) ==
    LET found == {r \in rows : r.id = id}
    IN IF found = {} THEN Returned(Null) ELSE Returned(CHOOSE r \in found : TRUE)

\* Manager.__get__: the query Model.objects starts from
ManagerQuery(rows) == {r \in rows : ~r.is_removed}

\* Manager.get(id=id): filter, then scalars().one_or_none()
ManagerGetById(id, rows) ==
    LET found == {r \in ManagerQuery(rows) : r.id = id}
    IN IF found = {} THEN Returned(Null) ELSE Returned(CHOOSE r \in found : TRUE)

\* _apply_pagination reporting the length of the page as the total
_apply_pagination_page_total(execution, pagination_params) ==
    LET offset == pagination_params.size * (pagination_params.page - 1)
        items == SubSeq(execution, offset + 1,
                        IF offset + pagination_params.size <= Len(execution)
                        THEN offset + pagination_params.size ELSE Len(execution))
    IN [items |-> items, total |-> Len(items)]

\* fastapi_pagination paginate, as _apply_pagination uses it: LIMIT size
\* OFFSET size * (page - 1) of the executed query, and the count of all its rows
_apply_pagination(execution, pagination_params) ==
    LET offset == pagination_params.size * (pagination_params.page - 1)
    IN [ items |-> SubSeq(execution, offset + 1,
                          Min(offset + pagination_params.size, Len(execution))),
         total |-> Len(execution) ]

_build_response(next_link, prev_link, count, data) ==
    [ links |-> Dict({[k |-> Lit("next"), v |-> next_link],
                      [k |-> Lit("previous"), v |-> prev_link]}),
      count |-> count, data |-> data ]

_process_list(execution, pagination_params, url) ==
    LET page_info == _apply_pagination(execution, pagination_params)
        data == TransformAll(page_info.items)
        total == page_info.total
        links == _generate_pagination_links(pagination_params.page, pagination_params.size,
                                            total, url)
    IN _build_response(links.next, links.previous, IntVal(total), List(data))

_process_all(execution) ==
    LET data == TransformAll(execution)
    IN _build_response(Null, Null, IntVal(Len(data)), List(data))

RetrieveMessage == Lit("Retrive service")

\* ListBaseService.list, given the rows the database returns for the query
list(execution, pagination_params, url) ==
    LET data == IF pagination_params.size <= 0
                THEN _process_all(execution)
                ELSE _process_list(execution, pagination_params, url)
    IN create_envelope_response(data.data, data.links, data.count, RetrieveMessage,
                                HTTP_200_OK, TRUE)

----------------------------------------------------------------------------
(* The inputs of the services *)

ListPath == Lit("/api/v1/users")

Entry(k, v) == [key |-> k, value |-> v]

ListFilters ==
    { <<>>,
      <<Entry(k_created__gte, IntVal(2))>>,
      <<Entry(s_ordering, Str(o_desc_created))>>,
      <<Entry(k_created__gte, IntVal(2)), Entry(s_ordering, Str(o_desc_created))>>,
      <<Entry(s_created, IntVal(1))>>,
      <<Entry(k_created__xx, IntVal(1))>>,
      <<Entry(s_ordering, Str(o_bogus))>>,
      <<Entry(k_created__lt, IntVal(2)), Entry(s_ordering, Str(o_id_desc_created))>> }

Optional(name, values) == {<<>>} \cup {<<[k |-> name, v |-> v]>> : v \in values}

Urls ==
    { Url(ListPath, q \o pg \o sz) :
        q \in Optional("q", {"x", ""}),
        pg \in Optional("page", {ToString(n) : n \in 1..MaxPage}),
        sz \in Optional("page_size", {ToString(n) : n \in 0..MaxSize}) }

----------------------------------------------------------------------------
(* The services: one action per operation.  Requests are served one at a   *)
(* time: an operation starts when none is in flight, and Respond hands its *)
(* result back.                                                            *)

\* Manager.create: a new row with the column defaults, committed
Create ==
    \E id \in Ids, created \in CreatedValues :
        /\ call = Idle
        /\ \A r \in store : r.id # id
        /\ store' = store \cup {Row(id, created, FALSE)}
        /\ call' = [op |-> "create", id |-> id]
        /\ result' = Returned(Row(id, created, FALSE))
        /\ UNCHANGED <<boundaryVars, filterVars, db, orm, validationVars>>

\* QueryModel.delete(hard): flag the row, delete it when hard, commit
Delete ==
    \E r \in store, hard \in BOOLEAN :
        /\ call = Idle
        /\ store' = IF hard THEN store \ {r}
                    ELSE (store \ {r}) \cup {[r EXCEPT !.is_removed = TRUE]}
        /\ call' = [op |-> "delete", id |-> r.id, hard |-> hard]
        /\ result' = Returned(Null)
        /\ UNCHANGED <<boundaryVars, filterVars, db, orm, validationVars>>

GetObject ==
    \E id \in Ids :
        /\ call = Idle
        /\ call' = [op |-> "get_object", id |-> id]
        /\ result' = get_object(id, store)
        /\ UNCHANGED <<store, boundaryVars, filterVars, db, orm, validationVars>>

GetById ==
    \E id \in Ids :
        /\ call = Idle
        /\ call' = [op |-> "get_by_id", id |-> id]
        /\ result' = get_by_id(id, store)
        /\ UNCHANGED <<store, boundaryVars, filterVars, db, orm, validationVars>>

ManagerGet ==
    \E id \in Ids :
        /\ call = Idle
        /\ call' = [op |-> "Manager.get", id |-> id]
        /\ result' = ManagerGetById(id, store)
        /\ UNCHANGED <<store, boundaryVars, filterVars, db, orm, validationVars>>

ListRequest ==
    \E fs \in ListFilters, url \in Urls :
        LET pagination_params == default_pagination_params(url)
            query == get_query(fs)
        IN /\ call = Idle
           /\ call' = [op |-> "list", fs |-> fs, url |-> url,
                       pagination_params |-> pagination_params]
           /\ IF query.kind = "raised"
              THEN result' = query
              ELSE \E execution \in Executions(query.value, store) :
                      result' = Returned(list(execution, pagination_params, url))
           /\ UNCHANGED <<store, boundaryVars, filterVars, db, orm, validationVars>>

Respond ==
    /\ call # Idle
    /\ call' = Idle
    /\ result' = Idle
    /\ UNCHANGED <<store, boundaryVars, filterVars, db, orm, validationVars>>

ServiceInit ==
    /\ store = {}
    /\ call = Idle
    /\ result = Idle

InitService == ServiceInit /\ BoundaryInit /\ FilterIdle /\ SessionIdle /\ ManagerIdle /\ ValidationIdle

NextService ==
    \/ Create
    \/ Delete
    \/ GetObject
    \/ GetById
    \/ ManagerGet
    \/ ListRequest
    \/ Respond

SpecService == InitService /\ [][NextService]_vars

----------------------------------------------------------------------------
(* core/utils/orm.py: Manager.get_or_create and Manager.update_or_create   *)
(* on the table of UserModel.  The keyword arguments and the defaults are  *)
(* mappings of column names to values.                                     *)

EmptyDict == [k \in {} |-> 0]

\* the keyword arguments and the defaults of the calls; `defaults or {}` and the
\* test of update_or_create make None the empty mapping
KwargsPool == {[email |-> 0], [email |-> 1], [email |-> 0, public_key |-> 0]}
DefaultsPool == {EmptyDict, [public_key |-> 0], [public_key |-> 1], [email |-> 1, public_key |-> 0]}

\* the columns of UserModel declared nullable=False without a default
RequiredColumns == {"email", "public_key"}

\* Model.objects.filter(**kwargs): the rows the query selects, the removed ones
\* being left out by __get__
filter_by(rows, kwargs) ==
    {r \in rows : ~r.is_removed /\ \A k \in DOMAIN kwargs : r[k] = kwargs[k]}

\* kwargs.update(defaults or {})
kwargs_update(kwargs, defaults) ==
    [k \in DOMAIN kwargs \cup DOMAIN defaults |->
        IF k \in DOMAIN defaults THEN defaults[k] ELSE kwargs[k]]

\* Manager.create: the instance is built, added and committed; the id and the
\* timestamps come from the column defaults
create(rows, id, now, kwargs) ==
    IF ~(RequiredColumns \subseteq DOMAIN kwargs)
    THEN [result |-> Raised(IntegrityError(Object("NotNullViolation"))), store |-> rows]
    ELSE LET instance == [ id |-> id, created |-> now, updated |-> now, is_removed |-> FALSE,
                           email |-> kwargs.email, public_key |-> kwargs.public_key ]
         IN [result |-> Returned(<<instance, TRUE>>), store |-> rows \cup {instance}]

\* Manager.get_or_create: every outcome the call can have; first() without an
\* ORDER BY returns any of the selected rows
get_or_create(rows, defaults, kwargs) ==
    LET selected == filter_by(rows, kwargs)
    IN IF selected # {}
       THEN {[result |-> Returned(<<instance, FALSE>>), store |-> rows] : instance \in selected}
       ELSE {create(rows, id, now, kwargs_update(kwargs, defaults)) :
                id \in {i \in Ids : \A r \in rows : r.id # i}, now \in CreatedValues}

\* setattr(instance, key, value) for every item of defaults
setattrs(instance, defaults) ==
    [c \in DOMAIN instance |-> IF c \in DOMAIN defaults THEN defaults[c] ELSE instance[c]]

\* Manager.update_or_create: the instance found takes the defaults and is
\* committed; an UPDATE that changes a column sets `updated` (onupdate)
update_or_create(rows, defaults, kwargs) ==
    UNION {
        IF out.result.kind = "raised" \/ out.result.value[2] THEN {out}
        ELSE LET instance == out.result.value[1]
                 changed == setattrs(instance, defaults)
             IN IF changed = instance THEN {out}
                ELSE {[result |-> Returned(<<[changed EXCEPT !.updated = now], FALSE>>),
                       store |-> (rows \ {instance}) \cup {[changed EXCEPT !.updated = now]}] :
                         now \in {t \in CreatedValues : t >= instance.updated}}
        : out \in get_or_create(rows, defaults, kwargs)}

GetOrCreate ==
    \E kwargs \in KwargsPool, defaults \in DefaultsPool :
        \E out \in get_or_create(store, defaults, kwargs) :
            /\ store' = out.store
            /\ call' = [op |-> "get_or_create", kwargs |-> kwargs, defaults |-> defaults]
            /\ result' = out.result
            /\ UNCHANGED <<boundaryVars, filterVars, db, orm, validationVars>>

UpdateOrCreate ==
    \E kwargs \in KwargsPool, defaults \in DefaultsPool :
        \E out \in update_or_create(store, defaults, kwargs) :
            /\ store' = out.store
            /\ call' = [op |-> "update_or_create", kwargs |-> kwargs, defaults |-> defaults]
            /\ result' = out.result
            /\ UNCHANGED <<boundaryVars, filterVars, db, orm, validationVars>>

InitOrm == ServiceInit /\ BoundaryInit /\ FilterIdle /\ SessionIdle /\ ManagerIdle /\ ValidationIdle

NextOrm ==
    \/ GetOrCreate
    \/ UpdateOrCreate
    \/ Delete
    \/ Respond

SpecOrm == InitOrm /\ [][NextOrm]_vars

----------------------------------------------------------------------------
(* core/settings/database.py: the data-store sessions.  A session is new   *)
(* when Session() returns it, active once a statement ran on it (it holds  *)
(* a transaction and a connection), and closed after close(); a closed     *)
(* session that runs a statement is active again.  get_session is a        *)
(* generator: it is suspended at its yield until it is resumed, thrown     *)
(* into, or finalized when nothing refers to it any more.                  *)

MaxSessions == 2

\* who acquires a session: the request dependency, the mixin, the startup check
Acquirers == {"get_session", "DatabaseSessionMixin", "validate_db_conections"}

\* get_session up to its yield: db = Session()
Session(by) == [by |-> by, state |-> "new", gen |-> "suspended"]

\* session.execute(...): the session begins a transaction
execute(sess) == [sess EXCEPT !.state = "active"]

\* session.close()
close(sess) == [sess EXCEPT !.state = "closed"]

\* get_session from its yield on: an exception thrown in is rolled back and
\* swallowed, and on every way out the finally clause closes the session
get_session(sess, thrown) == [close(sess) EXCEPT !.gen = "done"]

\* DatabaseSessionMixin.__exit__
__exit__(sess) == close(sess)

\* validate_db_conections after its query: the except clause closes the session
\* and raises BaseAppException; the normal path logs and returns
validate_db_conections(sess, raised) == IF raised THEN close(sess) ELSE sess

\* next(get_session()) keeps no reference to the generator: the request
\* dependency is the only acquirer whose generator the framework holds and resumes
Unreferenced(sess) == sess.by # "get_session" /\ sess.gen = "suspended"

Current == db.sessions[Len(db.sessions)]

SetCurrent(sess, cur) ==
    [sessions |-> [db.sessions EXCEPT ![Len(db.sessions)] = sess], cur |-> cur]

\* an acquirer starts: Session() is created and handed out at the yield
Acquire ==
    \E by \in Acquirers :
        /\ db.cur.pc = "done"
        /\ Len(db.sessions) < MaxSessions
        /\ db' = [ sessions |-> Append(db.sessions, Session(by)),
                   cur |-> [op |-> by, pc |-> "body", raised |-> FALSE] ]
        /\ UNCHANGED <<boundaryVars, serviceVars, filterVars, orm, validationVars>>

\* the work done with the session: the handler, the body of the with statement,
\* or the startup query; it runs statements on the session or not, and it
\* completes or raises (the startup check always runs its query)
Body ==
    \E used \in BOOLEAN, raised \in BOOLEAN :
        /\ db.cur.pc = "body"
        /\ db.cur.op = "validate_db_conections" => used
        /\ db' = SetCurrent(IF used THEN execute(Current) ELSE Current,
                            [db.cur EXCEPT !.pc = "exit", !.raised = raised])
        /\ UNCHANGED <<boundaryVars, serviceVars, filterVars, orm, validationVars>>

\* the way out of the acquirer, after the work completed or raised
Exit ==
    /\ db.cur.pc = "exit"
    /\ db' = SetCurrent(
                CASE db.cur.op = "get_session" -> get_session(Current, db.cur.raised)
                  [] db.cur.op = "DatabaseSessionMixin" -> __exit__(Current)
                  [] db.cur.op = "validate_db_conections" ->
                        validate_db_conections(Current, db.cur.raised),
                [db.cur EXCEPT !.pc = "done"])
    /\ UNCHANGED <<boundaryVars, serviceVars, filterVars, orm, validationVars>>

\* a suspended generator nothing refers to is finalized: GeneratorExit is raised
\* at its yield and the finally clause runs.  With reference counting this
\* happens as soon as next(get_session()) has returned; a tracing collector does
\* it at some later time.
Finalize ==
    \E i \in DOMAIN db.sessions :
        /\ Unreferenced(db.sessions[i])
        /\ db' = [db EXCEPT !.sessions[i] = get_session(db.sessions[i], FALSE)]
        /\ UNCHANGED <<boundaryVars, serviceVars, filterVars, orm, validationVars>>

InitSession == SessionIdle /\ BoundaryInit /\ ServiceIdle /\ FilterIdle /\ ManagerIdle /\ ValidationIdle

NextSession ==
    \/ Acquire
    \/ Body
    \/ Exit
    \/ Finalize

\* every started piece of work finishes, and the collector does run
SpecSession ==
    /\ InitSession
    /\ [][NextSession]_vars
    /\ WF_vars(Body)
    /\ WF_vars(Exit)
    /\ WF_vars(Finalize)

----------------------------------------------------------------------------
(* core/utils/orm.py: Model.objects.  `objects = Manager()` is evaluated    *)
(* once, in the body of class Base, so every entity class and every        *)
(* request reaches the same Manager instance; __get__ and filter assign    *)
(* its cls and query fields.  A task runs Model.objects.filter(c) and then *)
(* executes the query, one method call per step.                           *)

Tasks == {1, 2}
Owners == {"UserModel", "OtherModel"}
Conditions == {"id = 1", "id = 2"}
NotRemoved == "is_removed IS FALSE"

\* select(cls)
select(cls) == [cls |-> cls, conds |-> {}]

\* query.where(cond)
where(query, cond) == [query EXCEPT !.conds = @ \cup {cond}]

\* Manager.__get__(instance, owner): every model here has is_removed
__get__(manager, owner) == [cls |-> owner, query |-> where(select(owner), NotRemoved)]

\* Manager.filter(cond)
filter(manager, cond) == [manager EXCEPT !.query = where(manager.query, cond)]

\* Manager.scalars(): the query the session is handed
scalars(manager) == manager.query

\* a task evaluates Model.objects for the class and condition of its request
ObjectsGet ==
    \E t \in Tasks, owner \in Owners, cond \in Conditions :
        /\ orm.tasks[t].pc \in {"start", "done"}
        /\ orm' = [ manager |-> __get__(orm.manager, owner),
                    tasks |-> [orm.tasks EXCEPT ![t] =
                                  [pc |-> "got", cls |-> owner, cond |-> cond,
                                   executed |-> select("None")]] ]
        /\ UNCHANGED <<boundaryVars, serviceVars, filterVars, db, validationVars>>

\* ... .filter(cond) on the Manager that Model.objects returned
ObjectsFilter ==
    \E t \in Tasks :
        /\ orm.tasks[t].pc = "got"
        /\ orm' = [ manager |-> filter(orm.manager, orm.tasks[t].cond),
                    tasks |-> [orm.tasks EXCEPT ![t].pc = "filtered"] ]
        /\ UNCHANGED <<boundaryVars, serviceVars, filterVars, db, validationVars>>

\* ... .all(): the task executes what the Manager holds now
ObjectsExecute ==
    \E t \in Tasks :
        /\ orm.tasks[t].pc = "filtered"
        /\ orm' = [orm EXCEPT !.tasks[t].pc = "done",
                              !.tasks[t].executed = scalars(orm.manager)]
        /\ UNCHANGED <<boundaryVars, serviceVars, filterVars, db, validationVars>>

InitManager == ManagerIdle /\ BoundaryInit /\ ServiceIdle /\ FilterIdle /\ SessionIdle /\ ValidationIdle

NextManager ==
    \/ ObjectsGet
    \/ ObjectsFilter
    \/ ObjectsExecute

SpecManager == InitManager /\ [][NextManager]_vars

----------------------------------------------------------------------------
(* validation_group: the decorator of a view's validation methods.  A dict *)
(* is the sequence of its <<key, value>> pairs in insertion order.         *)

MaxCalls == 2

ErrorKeys == {"name", "email"}

\* the errors mappings a validation method reports
ErrorDicts ==
    {<<>>} \cup {<<<<k, "required">>>> : k \in ErrorKeys}
           \cup {<<<<p[1], "required">>, <<p[2], "required">>>> :
                     p \in {q \in ErrorKeys \X ErrorKeys : q[1] # q[2]}}

PyDict(pairs) == [kind |-> "dict", pairs |-> pairs]
PyTuple(elems) == [kind |-> "tuple", elems |-> elems]
PyList(elems) == [kind |-> "list", elems |-> elems]

\* what a validation method returns: its errors alone, or a tuple that starts with them
ValidationResults ==
    {PyDict(d) : d \in ErrorDicts}
        \cup {PyTuple(<<>>)}
        \cup {PyTuple(<<PyDict(d)>>) : d \in ErrorDicts}
        \cup {PyTuple(<<PyDict(d), Str("data")>>) : d \in ErrorDicts}
        \cup {PyTuple(<<PyDict(d), Str("data"), Str("more")>>) : d \in ErrorDicts}

\* len(value) of a dict or a tuple
len(value) == IF value.kind = "dict" THEN Len(value.pairs) ELSE Len(value.elems)

\* the keys of a dict
dict_keys(pairs) == {pairs[i][1] : i \in DOMAIN pairs}

\* d[key] = value
setitem(pairs, key, value) ==
    IF key \in dict_keys(pairs)
    THEN [i \in DOMAIN pairs |-> IF pairs[i][1] = key THEN <<key, value>> ELSE pairs[i]]
    ELSE Append(pairs, <<key, value>>)

RECURSIVE setitems(_, _)
setitems(pairs, new) ==
    IF new = <<>> THEN pairs
    ELSE setitems(setitem(pairs, Head(new)[1], Head(new)[2]), Tail(new))

\* dict.update(other): a dict is merged; of any other iterable every element is
\* taken as a key and value pair, and an element that is a dict is iterated
\* over its keys, so it must have exactly two
update(pairs, other) ==
    IF other.kind = "dict" THEN [kind |-> "returned", value |-> setitems(pairs, other.pairs)]
    ELSE IF \E i \in DOMAIN other.elems : len(other.elems[i]) # 2
         THEN [kind |-> "raised", cls |-> "ValueError"]
         ELSE [kind |-> "returned",
               value |-> setitems(pairs, [i \in DOMAIN other.elems |->
                                            <<other.elems[i].pairs[1][1],
                                              other.elems[i].pairs[2][1]>>])]

\* the wrapper of validation_group: the request_errors it leaves, and what the
\* call returned or raised
validation_group(self_request_errors, result_validation_function) ==
    LET returns_validation_function_number ==
            IF result_validation_function.kind = "tuple"
            THEN Len(result_validation_function.elems) ELSE 1
        errors ==
            IF returns_validation_function_number <= 1 THEN result_validation_function
            ELSE result_validation_function.elems[1]
        data ==
            IF returns_validation_function_number <= 1 THEN Null
            ELSE IF returns_validation_function_number = 2
                 THEN result_validation_function.elems[2]
                 ELSE PyList(Tail(result_validation_function.elems))
        validations_success == ~(len(errors) > 0)
        updated == update(self_request_errors.validations_errors, errors)
    IN  IF updated.kind = "raised"
        THEN [request_errors |-> self_request_errors, outcome |-> updated]
        ELSE [request_errors |->
                 [validations_errors |-> updated.value,
                  validations_success |->
                     (IF "validations_success" \in DOMAIN self_request_errors
                      THEN self_request_errors.validations_success ELSE TRUE)
                     /\ validations_success],
              outcome |-> [kind |-> "returned",
                           value |-> <<validations_success, errors, data>>]]

\* a wrapped validation method is called and returns `res`
wrapper ==
    /\ Len(validations) < MaxCalls
    /\ \E res \in ValidationResults :
           LET done == validation_group(request_errors, res)
           IN  /\ request_errors' = done.request_errors
               /\ validations' = Append(validations, [result |-> res, outcome |-> done.outcome])
    /\ UNCHANGED <<boundaryVars, serviceVars, filterVars, db, orm>>

InitValidation ==
    ValidationIdle /\ BoundaryInit /\ ServiceIdle /\ FilterIdle /\ SessionIdle /\ ManagerIdle

NextValidation == wrapper

SpecValidation == InitValidation /\ [][NextValidation]_vars

----------------------------------------------------------------------------
(* Properties of the request boundary (Spec) *)

\* the envelope an operation produced, bare or as the content of a JSON response
HasEnvelope == request # Idle /\ response.kind \in {"EnvelopeResponse", "JSONResponse"}
Envelope == IF response.kind = "JSONResponse" THEN response.content ELSE response

\* C1: whatever exception the handler raises, dispatch returns an enveloped JSON
\* response with successful = false and a status code; no exception leaves dispatch.
C1_NoExceptionEscapes ==
    (request.op = "dispatch" /\ request.outcome.kind = "raised") =>
        /\ response.kind = "JSONResponse"
        /\ response.content.kind = "EnvelopeResponse"
        /\ response.content.successful = FALSE
        /\ response.content.status_code = response.status_code

\* C2: every envelope the program produces has successful = true exactly when its
\* errors are null.
C2_SuccessfulIffNoErrors ==
    HasEnvelope => ((Envelope.successful = TRUE) <=> (Envelope.errors = Null))

\* C3: every envelope with successful = false has a null body, and every envelope
\* with successful = true has null errors.
C3_FailureHasNoBody ==
    HasEnvelope =>
        /\ Envelope.successful = FALSE => Envelope.body = Null
        /\ Envelope.successful = TRUE => Envelope.errors = Null

\* C9: the authorization check returns True exactly when both headers equal the
\* configured values, and raises NotAuthorizationException for every other pair.
C9_AuthorizedIffBothMatch ==
    request.op = "protected" =>
        IF request.key = RootApiKeyEnv /\ request.name = RootServiceNameEnv
        THEN request.checked = [kind |-> "returned", value |-> TRUE]
        ELSE /\ request.checked.kind = "raised"
             /\ request.checked.exc.cls = "NotAuthorizationException"

\* C10: a request to a protected path P with a wrong X-API-Key ends in a 401
\* envelope whose errors are {endpoint: "Dont autorization to resource P"}.
C10_WrongKeyIs401ForPath ==
    (request.op = "protected" /\ request.key # RootApiKeyEnv) =>
        /\ response.kind = "JSONResponse"
        /\ response.status_code = HTTP_401_UNAUTHORIZED
        /\ response.content.status_code = HTTP_401_UNAUTHORIZED
        /\ response.content.errors =
              Dict1(Lit("endpoint"), Cat(Lit("Dont autorization to resource "), request.path))

\* C11: every "no result" error a handler raises (NoResultFound or a subclass such
\* as ObjectNotFound) ends in a 404 envelope whose errors are
\* {detail: "No found: <message>"}.
C11_NoResultIs404 ==
    (request.op = "raise" /\ "NoResultFound" \in Mro(request.cls)) =>
        /\ response.kind = "JSONResponse"
        /\ response.status_code = HTTP_404_NOT_FOUND
        /\ response.content.status_code = HTTP_404_NOT_FOUND
        /\ response.content.errors =
              Dict1(Lit("detail"), Cat(Lit("No found: "), request.args[1]))

\* C12: an HTTPException with status code S and detail D ends in a response whose
\* HTTP status and envelope status_code are S and whose errors are {detail: D}.
C12_HttpExceptionPassesThrough ==
    (request.op = "dispatch" /\ request.outcome.kind = "raised"
        /\ request.outcome.exc.cls = "HTTPException") =>
        /\ response.kind = "JSONResponse"
        /\ response.status_code = request.outcome.exc.status_code
        /\ response.content.status_code = request.outcome.exc.status_code
        /\ response.content.errors = Dict1(Lit("detail"), request.outcome.exc.detail)

\* C13: an IntegrityError ends in a well-formed envelope whose status_code equals
\* the HTTP status: 409 with errors naming the violated table when its cause is a
\* foreign-key violation, 500 otherwise.
C13_IntegrityErrorEnveloped ==
    (request.op = "dispatch" /\ request.outcome.kind = "raised"
        /\ request.outcome.exc.cls = "IntegrityError") =>
        LET orig == request.outcome.exc.orig
            expected == IF orig.cls = "ForeignKeyViolation"
                        THEN HTTP_409_CONFLICT ELSE HTTP_500_INTERNAL_SERVER_ERROR
        IN /\ response.kind = "JSONResponse"
           /\ response.content.kind = "EnvelopeResponse"
           /\ response.status_code = expected
           /\ response.content.status_code = expected
           /\ orig.cls = "ForeignKeyViolation" =>
                 \E it \in response.content.errors.items : it.k = orig.table_name

\* C14: a typed application error of any class, built with any arguments its
\* constructor accepts, ends in a response whose errors are the error's to_dict()
\* and whose HTTP status and envelope status_code are the class's status_code.
C14_AppErrorKeepsDictAndStatus ==
    /\ (request.op = "dispatch" /\ request.outcome.kind = "raised"
            /\ isinstance(request.outcome.exc, "BaseAppException")) =>
          /\ response.kind = "JSONResponse"
          /\ response.status_code = AppStatusCode[request.outcome.exc.cls]
          /\ response.content.status_code = AppStatusCode[request.outcome.exc.cls]
          /\ response.content.errors = to_dict(request.outcome.exc)
    /\ (request.op = "raise" /\ request.cls \in AppClasses) =>
          /\ response.kind = "JSONResponse"
          /\ response.status_code = AppStatusCode[request.cls]
          /\ response.content.status_code = AppStatusCode[request.cls]

\* C17: the response the generic services build for a single object
\* (create_response) and for a list (list) is an envelope with successful = true,
\* status_code = 200, errors = null and a fixed message.
C17_ServiceResponsesSucceed ==
    /\ request.op = "create_response" =>
          /\ response.kind = "EnvelopeResponse"
          /\ response.successful = TRUE
          /\ response.status_code = HTTP_200_OK
          /\ response.errors = Null
          /\ response.message = RetrieveMessage
    /\ (call.op = "list" /\ result.kind = "returned") =>
          /\ result.value.kind = "EnvelopeResponse"
          /\ result.value.successful = TRUE
          /\ result.value.status_code = HTTP_200_OK
          /\ result.value.errors = Null
          /\ result.value.message = RetrieveMessage

\* C18: for every list of validation errors, empty or not and with a location
\* path of any length, the validation handler answers 400 with an envelope whose
\* errors map each offending field to all its messages in the order reported, and
\* every reported message is under a field.
C18_ValidationIs400 ==
    request.op = "validate" =>
        /\ response.kind = "JSONResponse"
        /\ response.status_code = HTTP_400_BAD_REQUEST
        /\ response.content.status_code = HTTP_400_BAD_REQUEST
        /\ response.content.successful = FALSE
        /\ \A it \in response.content.errors.items :
              it.v = List(CollectMessages(request.errs, it.k))
        /\ \A i \in DOMAIN request.errs :
              \E it \in response.content.errors.items :
                  /\ it.k = FieldOf(request.errs[i])
                  /\ \E j \in DOMAIN it.v.items : it.v.items[j] = request.errs[i].msg

\* C24: an error raised in a layer below the middleware leaves that layer as the
\* error that was raised: it is not swallowed and not replaced by another.
C24_ErrorsPropagateUnchanged ==
    request.op = "below" => response = [kind |-> "raised", exc |-> request.exc]

\* C25: constructing an error of any class of the taxonomy emits exactly one log
\* record, and catching it at the boundary emits none.
C25_LoggedExactlyOnce ==
    request.op = "construct" =>
        /\ Len(response.at_construction) = 1
        /\ Len(response.at_catch) = 0

----------------------------------------------------------------------------
(* Properties of the filter manager (SpecFilter) *)

\* the field an ordering key names: the key without its descending marker
FieldName(key) == IF StartsWith(key, Minus) THEN Tail(key) ELSE key

RECURSIVE InvalidNames(_)
\* the ordering keys that name a field which is no column, in order (an empty
\* segment of the ordering value names no field)
InvalidNames(keys) ==
    IF keys = <<>> THEN <<>>
    ELSE (IF FieldName(Head(keys)) = <<>> \/ FieldName(Head(keys)) \in ColumnSet
          THEN <<>> ELSE <<Head(keys)>>)
         \o InvalidNames(Tail(keys))

\* C7: when the ordering names a field that is no column, building the ordering
\* raises a FilterException that lists exactly the invalid keys with the full
\* valid set, and no ordering expression is produced.
C7_InvalidOrderingFails ==
    (fcall.op = "get_ordering_expressions" /\ ManagerFilter(filters).kind = "returned") =>
        LET invalid == InvalidNames(ManagerFilter(filters).value.ordering)
        IN invalid # <<>> =>
             /\ fres.kind = "raised"
             /\ fres.exc.cls = "FilterException"
             /\ fres.exc.invalid_keys = invalid
             /\ fres.exc.valid_keys = Columns
             /\ to_dict(fres.exc) =
                    Dict({[k |-> KeyStr(invalid[i]), v |-> ChooseOneOf(Columns)] :
                            i \in DOMAIN invalid})

RECURSIVE ListedDirectives(_)
\* the sort directives an ordering value lists: one per comma-separated field, in
\* order, descending when the field is prefixed with '-' (a segment that names no
\* field lists nothing)
ListedDirectives(keys) ==
    IF keys = <<>> THEN <<>>
    ELSE (IF FieldName(Head(keys)) = <<>> THEN <<>>
          ELSE <<[ column |-> FieldName(Head(keys)),
                   dir |-> IF StartsWith(Head(keys), Minus) THEN "desc" ELSE "asc" ]>>)
         \o ListedDirectives(Tail(keys))

\* C20: when the mapping has an ordering key, the sort directives produced are
\* the fields its value lists, in order, each descending when prefixed with '-'
\* and ascending otherwise, and the default field is not applied; when it has
\* none, the one directive is the default field ascending.
C20_OrderingDirectives ==
    (fcall.op = "get_ordering_expressions" /\ fres.kind = "returned") =>
        IF \E i \in DOMAIN filters : filters[i].key = s_ordering
        THEN LET i == CHOOSE j \in DOMAIN filters : filters[j].key = s_ordering
             IN fres.value = ListedDirectives(Split(Chars(filters[i].value), Comma))
        ELSE fres.value = <<[column |-> DEFAULT_ORDER_FIELD, dir |-> "asc"]>>

\* C22: validation strips only a leading '-': a key is accepted exactly when the
\* key without one leading '-' is a column, and every other key that names a
\* field, one with a '-' elsewhere included, is reported as invalid.
C22_OnlyLeadingMinusStripped ==
    (fcall.op = "clean_order_by_keys" /\ ManagerFilter(filters).kind = "returned") =>
        LET keys == ManagerFilter(filters).value.ordering
            invalid == InvalidNames(keys)
        IN IF invalid = <<>>
           THEN fres = Returned(SelectSeq(keys, LAMBDA key : FieldName(key) \in ColumnSet))
           ELSE /\ fres.kind = "raised"
                /\ fres.exc.invalid_keys = invalid

\* C23: separe_filters puts every key of the mapping in exactly one bucket: the
\* range filters when the key contains '__', the ordering when the key is
\* `ordering`, the exact-match filters otherwise; no key is lost, and a key of
\* exactly two tokens is a range filter.
C23_KeysPartitioned ==
    fcall.op = "separe_filters" =>
        LET IsRange(e) == Contains(e.key, separator)
            IsOrdering(e) == ~IsRange(e) /\ e.key = s_ordering
            IsSingle(e) == ~IsRange(e) /\ e.key # s_ordering
            explicit == \E i \in DOMAIN filters : IsOrdering(filters[i])
        IN /\ fres.kind = "returned"
           /\ fres.value.range_filters = SelectSeq(filters, IsRange)
           /\ fres.value.single_filters = SelectSeq(filters, IsSingle)
           /\ fres.value.explicit = explicit
           /\ Len(fres.value.range_filters) + Len(fres.value.single_filters)
                 + (IF explicit THEN 1 ELSE 0) = Len(filters)
           /\ \A i \in DOMAIN filters :
                 Len(Split(filters[i].key, separator)) = 2 =>
                     \E j \in DOMAIN fres.value.range_filters :
                         fres.value.range_filters[j] = filters[i]

\* a mapping with a range key and the ordering key has been separated
C23_Witness ==
    /\ fcall.op = "separe_filters"
    /\ fres.kind = "returned"
    /\ Len(fres.value.range_filters) = 1
    /\ fres.value.explicit
    /\ Len(filters) = 2

\* the comparison operator a range key ends in
OperatorSuffix(key) == LET tokens == Split(key, separator) IN tokens[Len(tokens)]

Without(fs, i) == SubSeq(fs, 1, i - 1) \o SubSeq(fs, i + 1, Len(fs))

UnaryExpressionsOf(fs) ==
    LET mf == ManagerFilter(fs)
    IN IF mf.kind = "raised" THEN mf ELSE get_unary_expressions(mf.value)

\* C8: a range key with an unknown operator suffix raises nothing and adds nothing:
\* get_unary_expressions gives what it gives for the mapping without that key.
C8_UnknownOperatorDropped ==
    fcall.op = "get_unary_expressions" =>
        \A i \in DOMAIN filters :
            ( /\ Contains(filters[i].key, separator)
              /\ OperatorName(OperatorSuffix(filters[i].key)) = "none" ) =>
                fres = UnaryExpressionsOf(Without(filters, i))

----------------------------------------------------------------------------
(* Properties of the services (SpecService) *)

Fetches == {"get_object", "get_by_id", "Manager.get"}

\* C4 as stated: every fetch by identifier returns the stored entity with that id
\* or fails with a not-found error, and never returns null.
C4_FetchNeverReturnsNull ==
    call.op \in Fetches =>
        \/ /\ result.kind = "returned"
           /\ result.value \in store
           /\ result.value.id = call.id
        \/ /\ result.kind = "raised"
           /\ isinstance(result.exc, "NoResultFound")
           /\ \A r \in store : r.id # call.id

\* C4 as amended: get_object returns the stored entity with that id or raises
\* NoResultFound when none is stored; get_by_id and Manager.get return null
\* instead when no (for Manager.get: no not-removed) entity has the id.
C4_GetObjectOneOrNotFound ==
    /\ call.op = "get_object" =>
          \/ /\ result.kind = "returned"
             /\ result.value \in store
             /\ result.value.id = call.id
          \/ /\ result.kind = "raised"
             /\ isinstance(result.exc, "NoResultFound")
             /\ \A r \in store : r.id # call.id
    /\ call.op = "get_by_id" =>
          /\ result.kind = "returned"
          /\ IF \E r \in store : r.id = call.id
             THEN result.value \in store /\ result.value.id = call.id
             ELSE result.value = Null
    /\ call.op = "Manager.get" =>
          /\ result.kind = "returned"
          /\ IF \E r \in store : r.id = call.id /\ ~r.is_removed
             THEN result.value \in store /\ result.value.id = call.id
             ELSE result.value = Null

C4_Witness ==
    /\ call.op = "get_object"
    /\ result.kind = "raised"
    /\ store # {}

\* what a filter mapping asks of a row: equality for a plain key, the comparison
\* for a range key with a known operator, nothing for the ordering key
Satisfies(row, fs) ==
    \A i \in DOMAIN fs :
        LET key == fs[i].key
            n == fs[i].value.n
            tokens == Split(key, separator)
        IN IF key = s_ordering THEN TRUE
           ELSE IF Len(tokens) = 1 THEN ColumnValue(row, key) = n
           ELSE LET x == ColumnValue(row, tokens[1])
                IN CASE tokens[2] = s_gt -> x > n
                     [] tokens[2] = s_gte -> x >= n
                     [] tokens[2] = s_lt -> x < n
                     [] tokens[2] = s_lte -> x <= n
                     [] tokens[2] \in {s_contains, s_icontains} -> x = n
                     [] OTHER -> TRUE

Listed == call.op = "list" /\ result.kind = "returned"
ListBody == result.value.body
ListItems == ListBody.results.items
ItemSet == {ListItems[i] : i \in DOMAIN ListItems}
MatchingItems == {transform_to_schema(r) : r \in {x \in store : Satisfies(x, call.fs)}}
LinkOf(name) == (CHOOSE it \in ListBody.links.items : it.k = Lit(name)).v

\* C5: with size = 0 the count is the number of rows matching the filter and the
\* results are all of them; with size = N > 0 the count is still the number of all
\* matching rows and the results are at most N of them.
C5_CountIsTotal ==
    Listed =>
        /\ ListBody.count = IntVal(Cardinality(MatchingItems))
        /\ ItemSet \subseteq MatchingItems
        /\ Cardinality(ItemSet) = Len(ListItems)
        /\ IF call.pagination_params.size = 0
           THEN ItemSet = MatchingItems
           ELSE Len(ListItems) <= call.pagination_params.size

C5_Witness ==
    /\ Listed
    /\ call.pagination_params.size = 1
    /\ ListBody.count = IntVal(2)
    /\ Len(ListItems) = 1

\* the whole result is on the page requested
FitsOnePage ==
    \/ call.pagination_params.size = 0
    \/ Cardinality(MatchingItems) <= call.pagination_params.size

\* C6 as stated: page 1 of a result that fits in one page has no next and no
\* previous link, and every page > 1 has a previous link, for every size
\* including 0.
C6_PreviousOnEveryLaterPage ==
    Listed =>
        /\ (call.pagination_params.page = 1 /\ FitsOnePage) =>
              LinkOf("next") = Null /\ LinkOf("previous") = Null
        /\ call.pagination_params.page > 1 => LinkOf("previous") # Null

\* C6 as amended: page 1 of a result that fits in one page has no next and no
\* previous link; every page > 1 has a previous link when size > 0; with
\* size = 0 no page has a link.
C6_PreviousWhenPaginated ==
    Listed =>
        /\ (call.pagination_params.page = 1 /\ FitsOnePage) =>
              LinkOf("next") = Null /\ LinkOf("previous") = Null
        /\ (call.pagination_params.page > 1 /\ call.pagination_params.size > 0) =>
              LinkOf("previous") # Null
        /\ call.pagination_params.size = 0 =>
              LinkOf("next") = Null /\ LinkOf("previous") = Null

C6_Witness ==
    /\ Listed
    /\ call.pagination_params.page = 2
    /\ call.pagination_params.size = 1
    /\ LinkOf("previous") # Null

\* C15: a soft delete leaves the row in the store with is_removed = true and a
\* hard delete removes it; no default read path (Model.objects, the single-object
\* fetch, the list service) returns a row whose is_removed is true.
C15_SoftDeletedHidden ==
    /\ call.op = "delete" =>
          IF call.hard THEN \A r \in store : r.id # call.id
          ELSE \E r \in store : r.id = call.id /\ r.is_removed
    /\ (call.op \in {"get_object", "Manager.get"} /\ result.kind = "returned") =>
          \A r \in store : r.id = call.id /\ r.is_removed => result.value = Null
    /\ Listed => \A i \in DOMAIN ListItems :
                    \A r \in store : r.id = ListItems[i].id => ~r.is_removed

\* the query parameters of a URL other than page, in order
OtherParams(url) == SelectSeq(url.query, LAMBDA it : it.k # "page")

\* the values a URL gives for page
PageValues(url) == SelectSeq(url.query, LAMBDA it : it.k = "page")

\* the link is the request URL with only its page parameter changed to n
SamePageChanged(link, n) ==
    /\ link # Null
    /\ link.path = call.url.path
    /\ OtherParams(link) = OtherParams(call.url)
    /\ PageValues(link) = <<[k |-> "page", v |-> ToString(n)]>>

\* C21: on page p of a paginated list with T matching rows, the next link is
\* there exactly when p < ceil(T / size) and the previous link exactly when
\* p > 1; each is the request URL with only its page parameter changed, to p + 1
\* and to p - 1, every other query parameter kept as it was.
C21_LinksKeepOtherParams ==
    (Listed /\ call.pagination_params.size > 0) =>
        LET p == call.pagination_params.page
            T == Cardinality(MatchingItems)
        IN /\ IF p < TotalPages(T, call.pagination_params.size)
              THEN SamePageChanged(LinkOf("next"), p + 1)
              ELSE LinkOf("next") = Null
           /\ IF p > 1
              THEN SamePageChanged(LinkOf("previous"), p - 1)
              ELSE LinkOf("previous") = Null

----------------------------------------------------------------------------
(* Properties of the data-store sessions (SpecSession) *)

\* C16: every session that was acquired is eventually closed and stays closed,
\* whether the work done with it completed or raised.
C16_AcquiredSessionsClosed ==
    <>[](\A i \in DOMAIN db.sessions : db.sessions[i].state = "closed")

----------------------------------------------------------------------------
(* Properties of Model.objects under concurrent tasks (SpecManager) *)

\* C19: whatever the interleaving of two tasks, the query a task executes
\* selects from the entity class of that task and holds exactly the conditions
\* that task put into it.
C19_TasksShareNoQuery ==
    \A t \in Tasks :
        orm.tasks[t].pc = "done" =>
            /\ orm.tasks[t].executed.cls = orm.tasks[t].cls
            /\ orm.tasks[t].executed.conds = {NotRemoved, orm.tasks[t].cond}

----------------------------------------------------------------------------
(* Properties of validation_group (SpecValidation) *)

\* the errors mapping a validation method reported in what it returned
ErrorsOf(res) ==
    IF res.kind = "dict" THEN res.pairs
    ELSE IF res.elems = <<>> THEN <<>> ELSE res.elems[1].pairs

\* C26: after any sequence of wrapped calls, each call has returned
\* (success, errors, data) with success true exactly when its own errors are
\* empty, validations_success is true exactly when every call so far reported no
\* errors, and validations_errors holds every error key any call reported.
C26_ValidationsAccumulate ==
    /\ \A i \in DOMAIN validations :
          /\ validations[i].outcome.kind = "returned"
          /\ validations[i].outcome.value[1] = (ErrorsOf(validations[i].result) = <<>>)
          /\ dict_keys(ErrorsOf(validations[i].result)) \subseteq dict_keys(request_errors.validations_errors)
    /\ validations # <<>> =>
          /\ "validations_success" \in DOMAIN request_errors
          /\ request_errors.validations_success =
                (\A i \in DOMAIN validations : ErrorsOf(validations[i].result) = <<>>)

----------------------------------------------------------------------------
(* Properties of Manager.get_or_create and update_or_create (SpecOrm) *)

\* the columns of the entity
ColumnsOf(row) == DOMAIN row

\* a call of get_or_create that returns gives an existing row and stores nothing
\* when a not-removed row matches kwargs, and otherwise stores one new row built
\* from kwargs merged with defaults
GetOrCreateReturns ==
    (call'.op = "get_or_create" /\ result'.kind = "returned") =>
        LET selected == filter_by(store, call'.kwargs)
            instance == result'.value[1]
            merged == kwargs_update(call'.kwargs, call'.defaults)
        IN IF selected # {}
           THEN result'.value[2] = FALSE /\ instance \in selected /\ store' = store
           ELSE /\ result'.value[2] = TRUE
                /\ instance \notin store
                /\ store' = store \cup {instance}
                /\ \A k \in DOMAIN merged : instance[k] = merged[k]

\* a second call with the same arguments, right after a call that returned,
\* returns created = False and stores nothing
SecondCallFinds ==
    (/\ call.op = "get_or_create" /\ result.kind = "returned"
     /\ call'.op = "get_or_create"
     /\ call'.kwargs = call.kwargs /\ call'.defaults = call.defaults) =>
        /\ result'.kind = "returned"
        /\ result'.value[2] = FALSE
        /\ store' = store

\* update_or_create on an existing row changes that row only, and of it only the
\* columns named in defaults and `updated`, the time stamp the UPDATE itself sets
UpdateChangesDefaultsOnly ==
    (/\ call'.op = "update_or_create" /\ result'.kind = "returned"
     /\ result'.value[2] = FALSE) =>
        \E old \in store :
            /\ old.id = result'.value[1].id
            /\ store' = (store \ {old}) \cup {result'.value[1]}
            /\ \A c \in (ColumnsOf(old) \ {"updated"}) \ DOMAIN call'.defaults :
                  result'.value[1][c] = old[c]

\* C27: get_or_create returns (existing, False) and stores nothing when a
\* not-removed record matches kwargs, and otherwise stores exactly one new record
\* built from kwargs merged with defaults and returns (new, True); a second call
\* with the same arguments returns created = False and leaves the one record;
\* update_or_create on an existing record changes only the fields named in
\* defaults.
C27_GetOrCreateIdempotent ==
    [][GetOrCreateReturns /\ SecondCallFinds /\ UpdateChangesDefaultsOnly]_vars

====
